---- MODULE Spec2Model ----
(***************************************************************************)
(* Model of the BBC RSS scraper: main.py (orchestrator), modules/scraper.py *)
(* (URL loader, feed fetcher, entry extractor) and modules/storage.py      *)
(* (persister).  Text is modelled character by character: a string is a    *)
(* sequence of one-character strings.                                      *)
(***************************************************************************)
EXTENDS Integers, Sequences, FiniteSets, TLC

VARIABLES
    pc,             \* position of main(): validate, load, fetch, report, save, done
    fileStatus,     \* what the file system answers about the feeds file
    fileText,       \* content of the feeds file
    limit,          \* args.limit
    verbose,        \* args.verbose
    urls,           \* main: urls
    idx,            \* main: position of the for loop in urls (1-based)
    all_entries,    \* main: all_entries
    failed_urls,    \* main: failed_urls
    responses,      \* history: what the network answered to each GET, in order
    fetchLog,       \* history: the URLs handed to requests.get, in order
    stdout,         \* lines printed by main
    dataDirExists,  \* file system: the data directory exists
    outFile,        \* file system: <data-dir>/news_<today>.json
    fs0,            \* history: <<dataDirExists, outFile>> when the run started
    persist,        \* history: outcome of the save_entries call, if any
    exitCode        \* return value of main(), -1 while it runs

vars == <<pc, fileStatus, fileText, limit, verbose, urls, idx, all_entries,
          failed_urls, responses, fetchLog, stdout, dataDirExists, outFile,
          fs0, persist, exitCode>>

(* ---------------- bounds ---------------- *)
MaxFileLen == 7
MaxRunFileLen == 4
MaxItems == 2
MaxLimit == 1

(* ---------------- text ---------------- *)
Chars == {" ", "#", "a", "\n"}
Whitespace == {" ", "\n"}

Texts(n) == UNION {[1..k -> Chars] : k \in 0..n}

RECURSIVE SplitLines(_, _)
SplitLines(text, cur) ==
    IF text = <<>> THEN (IF cur = <<>> THEN <<>> ELSE <<cur>>)
    ELSE IF Head(text) = "\n"
         THEN <<Append(cur, "\n")>> \o SplitLines(Tail(text), <<>>)
         ELSE SplitLines(Tail(text), Append(cur, Head(text)))

FileLines(text) == SplitLines(text, <<>>)

RECURSIVE lstrip(_)
lstrip(s) == IF s # <<>> /\ Head(s) \in Whitespace THEN lstrip(Tail(s)) ELSE s

RECURSIVE rstrip(_)
rstrip(s) ==
    IF s # <<>> /\ s[Len(s)] \in Whitespace
    THEN rstrip(SubSeq(s, 1, Len(s) - 1)) ELSE s

strip(s) == rstrip(lstrip(s))

startswith(s, c) == s # <<>> /\ s[1] = c

(* ---------------- modules/scraper.py ---------------- *)
KeepLine(line) == strip(line) # <<>> /\ ~startswith(line, "#")

RECURSIVE StripEach(_)
StripEach(ls) ==
    IF ls = <<>> THEN <<>> ELSE <<strip(Head(ls))>> \o StripEach(Tail(ls))

(* load_feed_urls with the blank-line test dropped *)
load_feed_urls_keep_blank(status, text) ==
    IF status # "ok" THEN <<>>
    ELSE LET NotComment(line) == ~startswith(line, "#")
         IN  StripEach(SelectSeq(FileLines(text), NotComment))

load_feed_urls(status, text) ==
    IF status # "ok" THEN <<>>
    ELSE StripEach(SelectSeq(FileLines(text), KeepLine))

(* An element looked up with find(): absent (None) or present with text. *)
Absent == [present |-> FALSE, text |-> <<>>]
Elem(t) == [present |-> TRUE, text |-> t]

get_text(element) == IF ~element.present THEN <<>> ELSE strip(element.text)

(* The <item> elements a channel may carry. *)
ItemA == [title |-> Elem(<<" ", "a">>), link |-> Elem(<<"a">>),
          pubDate |-> Elem(<<"a", "a">>), description |-> Elem(<<"#">>)]
ItemB == [title |-> Absent, link |-> Elem(<<"a", "#">>),
          pubDate |-> Absent, description |-> Elem(<<"a", " ">>)]
XmlItems == {ItemA, ItemB}

(* The item lists of a channel: up to MaxItems items, neighbours differing *)
(* so that order, loss and duplication show.                               *)
ItemSeqs ==
    {[k \in 1..n |-> IF (k + s) % 2 = 0 THEN ItemA ELSE ItemB] :
        n \in 0..MaxItems, s \in {0, 1}}

(* What one HTTP GET can produce. *)
FailKinds == {"request_error", "no_channel", "parse_error"}
Responses ==
    {[kind |-> "ok", items |-> its] : its \in ItemSeqs}
    \cup {[kind |-> k, items |-> <<>>] : k \in FailKinds}

NoFeed == [ok |-> FALSE, entries |-> <<>>, url |-> <<>>]

ParseItem(item) ==
    [title |-> get_text(item.title), link |-> get_text(item.link),
     published |-> get_text(item.pubDate),
     description |-> get_text(item.description)]

fetch_feed(url, resp) ==
    IF resp.kind # "ok" THEN NoFeed
    ELSE [ok |-> TRUE,
          entries |-> [k \in 1..Len(resp.items) |-> ParseItem(resp.items[k])],
          url |-> url]

(* extract_entries reading the key 'summary', which fetch_feed never sets *)
extract_entries_wrong_key(feed) ==
    [k \in 1..Len(feed.entries) |->
        [title |-> feed.entries[k].title, link |-> feed.entries[k].link,
         published |-> feed.entries[k].published,
         summary |-> <<>>]]

extract_entries(feed) ==
    [k \in 1..Len(feed.entries) |->
        [title |-> feed.entries[k].title, link |-> feed.entries[k].link,
         published |-> feed.entries[k].published,
         summary |-> feed.entries[k].description]]

(* ---------------- main.py ---------------- *)
NoLimit == [isNone |-> TRUE, val |-> 0]
Limit(n) == [isNone |-> FALSE, val |-> n]
Limits == {NoLimit} \cup {Limit(n) : n \in (-1)..MaxLimit}

(* Python's s[:n] *)
SliceTo(s, n) ==
    IF n >= 0 THEN SubSeq(s, 1, IF n < Len(s) THEN n ELSE Len(s))
    ELSE SubSeq(s, 1, Len(s) + n)

(* the limit applied one entry too late *)
ApplyLimitOffByOne(entries, lim) ==
    IF ~lim.isNone /\ Len(entries) > lim.val
    THEN SliceTo(entries, lim.val + 1) ELSE entries

ApplyLimit(entries, lim) ==
    IF ~lim.isNone /\ Len(entries) > lim.val
    THEN SliceTo(entries, lim.val) ELSE entries

FileStatuses == {"missing", "notfile", "noaccess", "undecodable", "ok"}

validate_feeds_file(status) == status \in {"ok", "undecodable"}

(* save_entries called whatever the aggregate holds *)
ShouldSaveAlways(entries) == TRUE

ShouldSave(entries) == entries # <<>>

(* the failure report printed whatever args.verbose says *)
ReportLinesIgnoreVerbose(failed, verb) ==
    IF failed # <<>> THEN << <<"failed_feeds", failed>> >> ELSE <<>>

ReportLines(failed, verb) ==
    IF failed # <<>> /\ verb THEN << <<"failed_feeds", failed>> >> ELSE <<>>

NoFile == [exists |-> FALSE, complete |-> FALSE, entries |-> <<>>]
OldEntry == [title |-> <<"#">>, link |-> <<"#">>, published |-> <<>>,
             summary |-> <<>>]
OldFile == [exists |-> TRUE, complete |-> TRUE, entries |-> <<OldEntry>>]
(* a file opened with 'w' and not written to the end; what it holds of the *)
(* serialisation is not modelled                                          *)
PartialFile == [exists |-> TRUE, complete |-> FALSE, entries |-> <<>>]
FileSystems == {<<FALSE, NoFile>>, <<TRUE, NoFile>>, <<TRUE, OldFile>>}

Init ==
    /\ pc = "validate"
    /\ fileStatus \in FileStatuses
    /\ fileText \in (IF fileStatus = "ok" THEN Texts(MaxRunFileLen) ELSE {<<>>})
    /\ limit \in Limits
    /\ verbose \in BOOLEAN
    /\ urls = <<>>
    /\ idx = 0
    /\ all_entries = <<>>
    /\ failed_urls = <<>>
    /\ responses = <<>>
    /\ fetchLog = <<>>
    /\ stdout = <<>>
    /\ fs0 \in FileSystems
    /\ dataDirExists = fs0[1]
    /\ outFile = fs0[2]
    /\ persist = "not_called"
    /\ exitCode = -1

Validate ==
    /\ pc = "validate"
    /\ IF validate_feeds_file(fileStatus)
       THEN /\ pc' = "load"
            /\ UNCHANGED <<stdout, exitCode>>
       ELSE /\ pc' = "done"
            /\ stdout' = Append(stdout, <<"feeds_file_error", fileStatus>>)
            /\ exitCode' = 1
    /\ UNCHANGED <<fileStatus, fileText, limit, verbose, urls, idx,
                   all_entries, failed_urls, responses, fetchLog,
                   dataDirExists, outFile, fs0, persist>>

(* main without the "if not urls: return 1" test *)
LoadUrlsNoEmptyCheck ==
    /\ pc = "load"
    /\ urls' = load_feed_urls(fileStatus, fileText)
    /\ pc' = IF urls' = <<>> THEN "report" ELSE "fetch"
    /\ stdout' = IF verbose THEN Append(stdout, <<"loaded", Len(urls')>>)
                 ELSE stdout
    /\ idx' = 1
    /\ UNCHANGED <<fileStatus, fileText, limit, verbose, all_entries,
                   failed_urls, responses, fetchLog, dataDirExists, outFile,
                   fs0, persist, exitCode>>

LoadUrls ==
    /\ pc = "load"
    /\ urls' = load_feed_urls(fileStatus, fileText)
    /\ IF urls' = <<>>
       THEN /\ pc' = "done"
            /\ stdout' = Append(stdout, <<"no_feed_urls", 0>>)
            /\ exitCode' = 1
            /\ idx' = idx
       ELSE /\ pc' = "fetch"
            /\ stdout' = IF verbose
                         THEN Append(stdout, <<"loaded", Len(urls')>>)
                         ELSE stdout
            /\ exitCode' = exitCode
            /\ idx' = 1
    /\ UNCHANGED <<fileStatus, fileText, limit, verbose, all_entries,
                   failed_urls, responses, fetchLog, dataDirExists, outFile,
                   fs0, persist>>

LoopNext == IF idx = Len(urls) THEN "report" ELSE "fetch"

FetchFeedOk ==
    /\ pc = "fetch"
    /\ \E resp \in Responses :
          LET url == urls[idx]
              feed == fetch_feed(url, resp)
              extracted == extract_entries(feed)
              entries == ApplyLimit(extracted, limit)
          IN  /\ feed.ok
              /\ responses' = Append(responses, resp)
              /\ fetchLog' = Append(fetchLog, url)
              /\ all_entries' = all_entries \o entries
              /\ stdout' =
                    IF verbose
                    THEN stdout
                         \o (IF ~limit.isNone /\ Len(extracted) > limit.val
                             THEN << <<"limiting", Len(extracted)>> >>
                             ELSE <<>>)
                         \o << <<"fetched", Len(entries)>> >>
                    ELSE stdout
    /\ idx' = idx + 1
    /\ pc' = LoopNext
    /\ UNCHANGED <<fileStatus, fileText, limit, verbose, urls, failed_urls,
                   dataDirExists, outFile, fs0, persist, exitCode>>

(* a failed feed ends the loop *)
FetchFeedFailBreaks ==
    /\ pc = "fetch"
    /\ \E resp \in Responses :
          LET url == urls[idx]
              feed == fetch_feed(url, resp)
          IN  /\ ~feed.ok
              /\ responses' = Append(responses, resp)
              /\ fetchLog' = Append(fetchLog, url)
              /\ failed_urls' =
                    Append(failed_urls, <<url, "No data returned">>)
    /\ idx' = idx + 1
    /\ pc' = "report"
    /\ UNCHANGED <<fileStatus, fileText, limit, verbose, urls, all_entries,
                   stdout, dataDirExists, outFile, fs0, persist, exitCode>>

(* a failed feed is skipped without a failure record *)
FetchFeedFailNoRecord ==
    /\ pc = "fetch"
    /\ \E resp \in Responses :
          LET url == urls[idx]
              feed == fetch_feed(url, resp)
          IN  /\ ~feed.ok
              /\ responses' = Append(responses, resp)
              /\ fetchLog' = Append(fetchLog, url)
    /\ idx' = idx + 1
    /\ pc' = LoopNext
    /\ UNCHANGED <<fileStatus, fileText, limit, verbose, urls, all_entries,
                   failed_urls, stdout, dataDirExists, outFile, fs0, persist,
                   exitCode>>

(* fetch_feed returned None (main.py:127-128).  The except branch of       *)
(* main.py:129-130 is not an action: fetch_feed and extract_entries catch  *)
(* every Exception themselves, so nothing reaches it.                      *)
FetchFeedFail ==
    /\ pc = "fetch"
    /\ \E resp \in Responses :
          LET url == urls[idx]
              feed == fetch_feed(url, resp)
          IN  /\ ~feed.ok
              /\ responses' = Append(responses, resp)
              /\ fetchLog' = Append(fetchLog, url)
              /\ failed_urls' =
                    Append(failed_urls, <<url, "No data returned">>)
    /\ idx' = idx + 1
    /\ pc' = LoopNext
    /\ UNCHANGED <<fileStatus, fileText, limit, verbose, urls, all_entries,
                   stdout, dataDirExists, outFile, fs0, persist, exitCode>>

Report ==
    /\ pc = "report"
    /\ stdout' = stdout \o ReportLines(failed_urls, verbose)
    /\ pc' = "save"
    /\ UNCHANGED <<fileStatus, fileText, limit, verbose, urls, idx,
                   all_entries, failed_urls, responses, fetchLog,
                   dataDirExists, outFile, fs0, persist, exitCode>>

(* "no entries" treated as a failed run *)
SaveSkipExit1 ==
    /\ pc = "save"
    /\ ~ShouldSave(all_entries)
    /\ stdout' = Append(stdout, <<"no_entries", 0>>)
    /\ exitCode' = 1
    /\ pc' = "done"
    /\ UNCHANGED <<fileStatus, fileText, limit, verbose, urls, idx,
                   all_entries, failed_urls, responses, fetchLog,
                   dataDirExists, outFile, fs0, persist>>

SaveSkip ==
    /\ pc = "save"
    /\ ~ShouldSave(all_entries)
    /\ stdout' = Append(stdout, <<"no_entries", 0>>)
    /\ exitCode' = 0
    /\ pc' = "done"
    /\ UNCHANGED <<fileStatus, fileText, limit, verbose, urls, idx,
                   all_entries, failed_urls, responses, fetchLog,
                   dataDirExists, outFile, fs0, persist>>

(* save_entries succeeds; the line of format_entries_summary is printed    *)
(* from all_entries and changes nothing, it is left out of stdout.         *)
SaveOk ==
    /\ pc = "save"
    /\ ShouldSave(all_entries)
    /\ dataDirExists' = TRUE
    /\ outFile' = [exists |-> TRUE, complete |-> TRUE, entries |-> all_entries]
    /\ persist' = "ok"
    /\ stdout' = Append(stdout, <<"saved", Len(all_entries)>>)
    /\ exitCode' = 0
    /\ pc' = "done"
    /\ UNCHANGED <<fileStatus, fileText, limit, verbose, urls, idx,
                   all_entries, failed_urls, responses, fetchLog, fs0>>

SaveFail ==
    /\ pc = "save"
    /\ ShouldSave(all_entries)
    /\ \/ /\ ~dataDirExists                 \* os.makedirs raises
          /\ UNCHANGED <<dataDirExists, outFile>>
       \/ /\ dataDirExists' = TRUE          \* open(file_path, 'w') raises
          /\ outFile' = outFile
       \/ /\ dataDirExists' = TRUE          \* json.dump raises part-way:
          /\ outFile' = PartialFile         \* the old content is gone
    /\ persist' = "failed"
    /\ stdout' = Append(stdout, <<"save_failed", 0>>)
    /\ exitCode' = 1
    /\ pc' = "done"
    /\ UNCHANGED <<fileStatus, fileText, limit, verbose, urls, idx,
                   all_entries, failed_urls, responses, fetchLog, fs0>>

Next ==
    \/ Validate
    \/ LoadUrls
    \/ FetchFeedOk
    \/ FetchFeedFail
    \/ Report
    \/ SaveSkip
    \/ SaveOk
    \/ SaveFail

Spec == Init /\ [][Next]_vars

(* ---------------- load_feed_urls on its own ---------------- *)
InitLoad ==
    /\ pc = "call"
    /\ fileStatus = "ok"
    /\ fileText \in Texts(MaxFileLen)
    /\ limit = NoLimit
    /\ verbose = FALSE
    /\ urls = <<>>
    /\ idx = 0
    /\ all_entries = <<>>
    /\ failed_urls = <<>>
    /\ responses = <<>>
    /\ fetchLog = <<>>
    /\ stdout = <<>>
    /\ fs0 = <<FALSE, NoFile>>
    /\ dataDirExists = FALSE
    /\ outFile = NoFile
    /\ persist = "not_called"
    /\ exitCode = -1

CallLoad ==
    /\ pc = "call"
    /\ urls' = load_feed_urls(fileStatus, fileText)
    /\ pc' = "returned"
    /\ UNCHANGED <<fileStatus, fileText, limit, verbose, idx, all_entries,
                   failed_urls, responses, fetchLog, stdout, dataDirExists,
                   outFile, fs0, persist, exitCode>>

NextLoad == CallLoad

LoadSpec == InitLoad /\ [][NextLoad]_vars

(* ======================= properties ======================= *)

Last(s) == s[Len(s)]
IsPrefix(s, t) == Len(s) <= Len(t) /\ s = SubSeq(t, 1, Len(s))

(* The step in which main gets the answer to one GET. *)
FetchStep == pc = "fetch" /\ Len(responses') = Len(responses) + 1

(* The entry an <item> stands for: its four texts, description as summary. *)
ExpectedEntry(item) ==
    [title |-> get_text(item.title), link |-> get_text(item.link),
     published |-> get_text(item.pubDate),
     summary |-> get_text(item.description)]

ExpectedEntries(items) == [k \in 1..Len(items) |-> ExpectedEntry(items[k])]

PositiveLimit == ~limit.isNone /\ limit.val >= 1

(* C1: a feed whose fetch fails adds nothing to all_entries, leaves the    *)
(* entries aggregated so far as they are, appends exactly one failure      *)
(* record with that feed's URL, and the loop moves on to the next URL      *)
(* (or, after the last URL, to the report) without ending the run.         *)
C1_FailedFeedIsolated ==
    [][(FetchStep /\ Last(responses').kind \in FailKinds) =>
          /\ all_entries' = all_entries
          /\ Len(failed_urls') = Len(failed_urls) + 1
          /\ IsPrefix(failed_urls, failed_urls')
          /\ Last(failed_urls')[1] = urls[idx]
          /\ Last(fetchLog') = urls[idx]
          /\ idx' = idx + 1
          /\ pc' = (IF idx < Len(urls) THEN "fetch" ELSE "report")
          /\ exitCode' = -1]_vars

C1_Witness ==
    /\ Len(responses) = 2
    /\ responses[1].kind = "no_channel"
    /\ responses[2].kind = "ok"
    /\ failed_urls = << <<urls[1], "No data returned">> >>
    /\ all_entries # <<>>
    /\ pc = "report"

(* C2: with a positive limit L, a fetched feed of n > L entries adds       *)
(* exactly its first L entries, in document order, to the aggregate; with  *)
(* n <= L, or with no limit, it adds all n.  Each feed is cut on its own.  *)
C2_LimitPerFeed ==
    [][(FetchStep /\ Last(responses').kind = "ok") =>
          LET full == ExpectedEntries(Last(responses').items)
              n == Len(full)
              added == SubSeq(all_entries', Len(all_entries) + 1,
                              Len(all_entries'))
          IN  /\ IsPrefix(all_entries, all_entries')
              /\ (PositiveLimit /\ n > limit.val) =>
                    (Len(added) = limit.val
                     /\ added = SubSeq(full, 1, limit.val))
              /\ (limit.isNone \/ (PositiveLimit /\ n <= limit.val)) =>
                    added = full]_vars

C2_Witness ==
    /\ limit = Limit(1)
    /\ Len(responses) = 2
    /\ Len(responses[1].items) = 2
    /\ responses[1].items[1] # responses[1].items[2]
    /\ Len(responses[2].items) = 1
    /\ all_entries = <<ExpectedEntry(responses[1].items[1]),
                       ExpectedEntry(responses[2].items[1])>>

(* C3: main returns 1 exactly when the feeds file is missing, not a file   *)
(* or unreadable, when the loaded URL list is empty, or when save_entries  *)
(* fails; every other finished run returns 0, and nothing is returned      *)
(* while feeds are being fetched.                                         *)
C3_ExitCodes ==
    /\ pc # "done" => exitCode = -1
    /\ pc = "done" =>
          /\ exitCode \in {0, 1}
          /\ exitCode = 1 <=>
                \/ fileStatus \in {"missing", "notfile", "noaccess",
                                    "undecodable"}
                \/ urls = <<>>
                \/ persist = "failed"

C3_Witness ==
    /\ pc = "done"
    /\ exitCode = 0
    /\ Len(urls) = 2
    /\ Len(failed_urls) = 2
    /\ \A k \in 1..2 : responses[k].kind \in FailKinds

(* C4: once the URL list is exhausted, save_entries is called if and only  *)
(* if all_entries is non-empty; with no entries the data directory and the *)
(* output file stay as they were and main returns 0.                       *)
C4_PersistIffEntries ==
    /\ pc # "done" => persist = "not_called"
    /\ (pc = "done" /\ fetchLog # <<>>) =>
          /\ persist # "not_called" <=> all_entries # <<>>
          /\ all_entries = <<>> =>
                (<<dataDirExists, outFile>> = fs0 /\ exitCode = 0)

C4_Witness ==
    /\ pc = "done"
    /\ Len(responses) = 2
    /\ responses[1].kind = "ok"
    /\ responses[2].kind = "request_error"
    /\ all_entries = <<>>
    /\ outFile = OldFile
    /\ persist = "not_called"

(* ---- the loader's contract, stated without strip or SelectSeq ---- *)
IsBlank(line) == \A k \in 1..Len(line) : line[k] \in Whitespace
BeginsWithHash(line) == Len(line) >= 1 /\ line[1] = "#"

(* u is line without its leading and trailing whitespace *)
IsTrimOf(u, line) ==
    \E a \in 1..Len(line) : \E b \in a..Len(line) :
        /\ u = SubSeq(line, a, b)
        /\ line[a] \notin Whitespace
        /\ line[b] \notin Whitespace
        /\ \A k \in 1..(a - 1) : line[k] \in Whitespace
        /\ \A k \in (b + 1)..Len(line) : line[k] \in Whitespace

RECURSIVE Flatten(_)
Flatten(ls) == IF ls = <<>> THEN <<>> ELSE Head(ls) \o Flatten(Tail(ls))

(* ls cuts text after each newline and nowhere else *)
AreLinesOf(ls, text) ==
    /\ Flatten(ls) = text
    /\ \A k \in 1..Len(ls) :
          /\ ls[k] # <<>>
          /\ \A j \in 1..(Len(ls[k]) - 1) : ls[k][j] # "\n"
          /\ k < Len(ls) => Last(ls[k]) = "\n"

KeptIndexes(ls) ==
    {k \in 1..Len(ls) : ~IsBlank(ls[k]) /\ ~BeginsWithHash(ls[k])}

(* the j-th smallest element of the set of indexes S *)
Nth(S, j) == CHOOSE k \in S : Cardinality({m \in S : m <= k}) = j

(* C5: load_feed_urls returns the lines of the input, each trimmed of      *)
(* surrounding whitespace, in input order and with duplicates kept; the    *)
(* lines left out are exactly the blank ones and the ones whose first      *)
(* character is '#'.                                                       *)
C5_LoaderKeepsOrder ==
    pc = "returned" =>
        LET ls == FileLines(fileText)
            kept == KeptIndexes(ls)
        IN  /\ AreLinesOf(ls, fileText)
            /\ Len(urls) = Cardinality(kept)
            /\ \A j \in 1..Len(urls) : IsTrimOf(urls[j], ls[Nth(kept, j)])

C5_Witness ==
    /\ pc = "returned"
    /\ fileText = <<"a", "\n", "\n", "#", "\n", " ", "a">>
    /\ urls = << <<"a">>, <<"a">> >>

(* C6: every URL load_feed_urls returns, and every URL handed to           *)
(* fetch_feed, is non-empty and does not start with '#'.                   *)
C6_NoCommentUrl ==
    /\ \A k \in 1..Len(urls) : urls[k] # <<>> /\ urls[k][1] # "#"
    /\ \A k \in 1..Len(fetchLog) :
          fetchLog[k] # <<>> /\ fetchLog[k][1] # "#"

(* C7: a run that ends because the feeds file is missing or unreadable, or *)
(* because the URL list is empty, returns 1 without any GET and without    *)
(* touching the data directory or the output file.                         *)
C7_FatalBeforeNetwork ==
    (pc = "done"
     /\ (fileStatus \in {"missing", "notfile", "noaccess", "undecodable"}
         \/ urls = <<>>)) =>
        /\ exitCode = 1
        /\ fetchLog = <<>>
        /\ responses = <<>>
        /\ persist = "not_called"
        /\ <<dataDirExists, outFile>> = fs0

C7_Witness ==
    /\ pc = "done"
    /\ fileStatus = "ok"
    /\ fileText = <<"#", "a", "\n", "#">>
    /\ urls = <<>>
    /\ exitCode = 1
    /\ fetchLog = <<>>

HasReport(out) == \E k \in 1..Len(out) : out[k][1] = "failed_feeds"

ReportsShown(out) == {k \in 1..Len(out) : out[k][1] = "failed_feeds"}

(* the URLs whose GET failed, in fetch order *)
RECURSIVE FailedFetches(_)
FailedFetches(n) ==
    IF n = 0 THEN <<>>
    ELSE FailedFetches(n - 1)
         \o (IF responses[n].kind \in FailKinds THEN <<fetchLog[n]>>
             ELSE <<>>)

AllProcessed == pc \in {"save", "done"} /\ fetchLog # <<>>

C9_EachUrlOnceInOrder ==
    /\ IsPrefix(fetchLog, urls)
    /\ Len(responses) = Len(fetchLog)
    /\ pc = "fetch" => Len(fetchLog) = idx - 1
    /\ (pc \in {"report", "save"} \/ persist # "not_called"
        \/ (pc = "done" /\ fetchLog # <<>>)) => fetchLog = urls

C9_Witness ==
    /\ pc = "done"
    /\ persist = "failed"
    /\ Len(urls) = 2
    /\ urls[1] = urls[2]
    /\ fetchLog = urls
    /\ responses[1].kind = "request_error"
    /\ responses[2].kind = "ok"

(* what one answer contributes under a positive or absent limit *)
Segment(resp) ==
    IF resp.kind # "ok" THEN <<>>
    ELSE LET full == ExpectedEntries(resp.items)
         IN  IF ~limit.isNone /\ Len(full) > limit.val
             THEN SubSeq(full, 1, limit.val) ELSE full

RECURSIVE Aggregate(_)
Aggregate(n) ==
    IF n = 0 THEN <<>> ELSE Aggregate(n - 1) \o Segment(responses[n])

(* C10: with a positive or absent limit, all_entries is the concatenation, *)
(* in URL-list order, of each fetched feed's entries after the limit, one  *)
(* entry per item with description as summary; a failed feed contributes   *)
(* nothing, and that sequence is what save_entries writes.                 *)
C10_AggregateIsConcatenation ==
    (limit.isNone \/ PositiveLimit) =>
        /\ all_entries = Aggregate(Len(responses))
        /\ persist = "ok" =>
              outFile = [exists |-> TRUE, complete |-> TRUE,
                         entries |-> Aggregate(Len(urls))]

C10_Witness ==
    /\ persist = "ok"
    /\ limit = Limit(1)
    /\ Len(responses) = 2
    /\ Len(responses[1].items) = 2
    /\ Len(responses[2].items) = 2
    /\ responses[1].items[1] # responses[2].items[1]
    /\ Len(outFile.entries) = 2
    /\ outFile.entries[1].summary # outFile.entries[1].title
    /\ outFile.entries[1] # outFile.entries[2]

====
